---- MODULE Spec2Model ----
(***************************************************************************)
(* Model of the transaction engine (src/src/engine.rs) and of the client   *)
(* account it drives (src/src/account.rs).                                 *)
(*                                                                         *)
(* Funds are f64 in the source.  The model draws amounts from whole        *)
(* numbers 1..MaxAmount and bounds the number of operations, so that       *)
(* every balance is a whole number far below 2^53: on such values the f64  *)
(* operations +=, -=, unary - and >= of the source are exact and coincide  *)
(* with integer arithmetic, which is what the model uses.  NaN, infinities *)
(* and fractional amounts whose sums round are outside the modelled input. *)
(***************************************************************************)
EXTENDS Integers, FiniteSets, Sequences, TLC

(* ---- bounds ---- *)
\* one account driven directly, as the unit tests drive it
MaxTx == 2
MaxAmount == 2
MaxOps == 4
\* the engine fed a file of records
MaxClient == 2
MaxEngineAmount == 1
MaxEvents == 3
\* the engine fed by one worker per client
MaxFileLen == 2

TxIds == 0..(MaxTx - 1)
Amounts == 1..MaxAmount
Clients == 1..MaxClient
EngineAmounts == 1..MaxEngineAmount

VARIABLES account, op, before, origin, stage, nOps,
          accounts, last, pre, referenced, carriers, nEvents,
          queue, inorder, reordered, nRead

accountVars == <<account, op, before, origin, stage, nOps>>

engineVars == <<accounts, last, pre, referenced, carriers, nEvents>>

workerVars == <<queue, inorder, reordered, nRead>>

vars == <<account, op, before, origin, stage, nOps,
          accounts, last, pre, referenced, carriers, nEvents,
          queue, inorder, reordered, nRead>>

(* ---- HashMap<TransactionId, f64> ---- *)
EmptyMap == [k \in {} |-> 0]

contains_key(m, k) == k \in DOMAIN m

insert(m, k, v) == [x \in (DOMAIN m) \cup {k} |-> IF x = k THEN v ELSE m[x]]

remove(m, k) == [x \in (DOMAIN m) \ {k} |-> m[x]]

(* ---- BasicAccount ---- *)
new(client_id) ==
    [client_id |-> client_id,
     available |-> 0,
     held |-> 0,
     locked |-> FALSE,
     transaction_log |-> EmptyMap,
     active_disputes |-> EmptyMap]

\* mutant: a locked account refuses the deposit
deposit_refused_when_locked(self, transaction_id, amount) ==
    IF self.locked
    THEN self
    ELSE [self EXCEPT !.available = self.available + amount,
                      !.transaction_log = insert(self.transaction_log, transaction_id, amount)]

\* mutant: the withdrawal records the amount unsigned, as a deposit does
withdraw_records_unsigned(self, transaction_id, amount) ==
    IF self.available >= amount
    THEN [self EXCEPT !.available = self.available - amount,
                      !.transaction_log = insert(self.transaction_log, transaction_id, amount)]
    ELSE self

deposit(self, transaction_id, amount) ==
    [self EXCEPT !.available = self.available + amount,
                 !.transaction_log = insert(self.transaction_log, transaction_id, amount)]

\* mutant: the funds check is missing
withdraw_unchecked(self, transaction_id, amount) ==
    [self EXCEPT !.available = self.available - amount,
                 !.transaction_log = insert(self.transaction_log, transaction_id, 0 - amount)]

\* mutant: the funds check is strict (> for >=)
withdraw_strict(self, transaction_id, amount) ==
    IF self.available > amount
    THEN [self EXCEPT !.available = self.available - amount,
                      !.transaction_log = insert(self.transaction_log, transaction_id, 0 - amount)]
    ELSE self

withdraw(self, transaction_id, amount) ==
    IF self.available >= amount
    THEN [self EXCEPT !.available = self.available - amount,
                      !.transaction_log = insert(self.transaction_log, transaction_id, 0 - amount)]
    ELSE self

\* mutant: the account is locked when the dispute opens
dispute_locks(self, transaction_id) ==
    IF contains_key(self.transaction_log, transaction_id)
    THEN LET amount == self.transaction_log[transaction_id]
         IN [self EXCEPT !.transaction_log = remove(self.transaction_log, transaction_id),
                         !.active_disputes = insert(self.active_disputes, transaction_id, amount),
                         !.available = self.available - amount,
                         !.held = self.held + amount,
                         !.locked = TRUE]
    ELSE self

\* mutant: the disputed amount leaves available but is not added to held
dispute_forgets_hold(self, transaction_id) ==
    IF contains_key(self.transaction_log, transaction_id)
    THEN LET amount == self.transaction_log[transaction_id]
         IN [self EXCEPT !.transaction_log = remove(self.transaction_log, transaction_id),
                         !.active_disputes = insert(self.active_disputes, transaction_id, amount),
                         !.available = self.available - amount]
    ELSE self

\* mutant: the dispute is refused when the available funds do not cover it
dispute_checks_funds(self, transaction_id) ==
    IF contains_key(self.transaction_log, transaction_id)
          /\ self.available >= self.transaction_log[transaction_id]
    THEN LET amount == self.transaction_log[transaction_id]
         IN [self EXCEPT !.transaction_log = remove(self.transaction_log, transaction_id),
                         !.active_disputes = insert(self.active_disputes, transaction_id, amount),
                         !.available = self.available - amount,
                         !.held = self.held + amount]
    ELSE self

\* mutant: the transaction stays in the log when it is disputed
dispute_keeps_log(self, transaction_id) ==
    IF contains_key(self.transaction_log, transaction_id)
    THEN LET amount == self.transaction_log[transaction_id]
         IN [self EXCEPT !.active_disputes = insert(self.active_disputes, transaction_id, amount),
                         !.available = self.available - amount,
                         !.held = self.held + amount]
    ELSE self

dispute(self, transaction_id) ==
    IF contains_key(self.transaction_log, transaction_id)
    THEN LET amount == self.transaction_log[transaction_id]
         IN [self EXCEPT !.transaction_log = remove(self.transaction_log, transaction_id),
                         !.active_disputes = insert(self.active_disputes, transaction_id, amount),
                         !.available = self.available - amount,
                         !.held = self.held + amount]
    ELSE self

\* mutant: the resolve releases the held funds without returning them
resolve_drops_funds(self, transaction_id) ==
    IF contains_key(self.active_disputes, transaction_id)
    THEN LET amount == self.active_disputes[transaction_id]
         IN [self EXCEPT !.active_disputes = remove(self.active_disputes, transaction_id),
                         !.held = self.held - amount]
    ELSE self

resolve(self, transaction_id) ==
    IF contains_key(self.active_disputes, transaction_id)
    THEN LET amount == self.active_disputes[transaction_id]
         IN [self EXCEPT !.active_disputes = remove(self.active_disputes, transaction_id),
                         !.held = self.held - amount,
                         !.available = self.available + amount]
    ELSE self

\* mutant: the account is locked whether or not the dispute exists
chargeback_locks_always(self, transaction_id) ==
    IF contains_key(self.active_disputes, transaction_id)
    THEN LET amount == self.active_disputes[transaction_id]
         IN [self EXCEPT !.active_disputes = remove(self.active_disputes, transaction_id),
                         !.held = self.held - amount,
                         !.locked = TRUE]
    ELSE [self EXCEPT !.locked = TRUE]

\* mutant: the chargeback also takes the amount from available
chargeback_debits_available(self, transaction_id) ==
    IF contains_key(self.active_disputes, transaction_id)
    THEN LET amount == self.active_disputes[transaction_id]
         IN [self EXCEPT !.active_disputes = remove(self.active_disputes, transaction_id),
                         !.held = self.held - amount,
                         !.available = self.available - amount,
                         !.locked = TRUE]
    ELSE self

chargeback(self, transaction_id) ==
    IF contains_key(self.active_disputes, transaction_id)
    THEN LET amount == self.active_disputes[transaction_id]
         IN [self EXCEPT !.active_disputes = remove(self.active_disputes, transaction_id),
                         !.held = self.held - amount,
                         !.locked = TRUE]
    ELSE self

\* mutant: the total leaves out the held funds
get_total_funds_available_only(self) == self.available

get_total_funds(self) == self.available + self.held

(* ---- Transaction (the record execute reads) ---- *)
None == << >>

Some(amount) == <<amount>>

unwrap(option) == option[1]


TransactionTypes == {"Deposit", "Withdrawal", "Dispute", "Resolve", "Chargeback"}

Transaction(type, client, tx, amount) ==
    [transaction_type |-> type, client_id |-> client, transaction_id |-> tx, amount |-> amount]

NoTransaction == Transaction("NoTransaction", 0, 0, None)

(* ---- TransactionEngine ---- *)
\* mutant: the account is inserted anew on every reference (insert for or_insert_with)
entry_insert_always(accs, client_id) ==
    [c \in (DOMAIN accs) \cup {client_id} |->
        IF c = client_id THEN new(client_id) ELSE accs[c]]

entry_or_insert(accs, client_id) ==
    IF client_id \in DOMAIN accs
    THEN accs
    ELSE [c \in (DOMAIN accs) \cup {client_id} |->
             IF c = client_id THEN new(client_id) ELSE accs[c]]

\* mutant: an absent amount is taken as zero (unwrap_or_default)
dispatch_defaults_amount(acc, transaction) ==
    LET amount == IF transaction.amount # None THEN unwrap(transaction.amount) ELSE 0
    IN CASE transaction.transaction_type = "Deposit" ->
               deposit(acc, transaction.transaction_id, amount)
         [] transaction.transaction_type = "Withdrawal" ->
               withdraw(acc, transaction.transaction_id, amount)
         [] transaction.transaction_type = "Dispute" ->
               dispute(acc, transaction.transaction_id)
         [] transaction.transaction_type = "Resolve" ->
               resolve(acc, transaction.transaction_id)
         [] transaction.transaction_type = "Chargeback" ->
               chargeback(acc, transaction.transaction_id)

dispatch(acc, transaction) ==
    CASE transaction.transaction_type = "Deposit" ->
            IF transaction.amount # None
            THEN deposit(acc, transaction.transaction_id, unwrap(transaction.amount))
            ELSE acc
      [] transaction.transaction_type = "Withdrawal" ->
            IF transaction.amount # None
            THEN withdraw(acc, transaction.transaction_id, unwrap(transaction.amount))
            ELSE acc
      [] transaction.transaction_type = "Dispute" ->
            dispute(acc, transaction.transaction_id)
      [] transaction.transaction_type = "Resolve" ->
            resolve(acc, transaction.transaction_id)
      [] transaction.transaction_type = "Chargeback" ->
            chargeback(acc, transaction.transaction_id)

\* mutant: a deposit or withdrawal whose id another account already holds is dropped
execute_global_ids(accs, transaction) ==
    LET created == entry_or_insert(accs, transaction.client_id)
        known == \E c \in DOMAIN accs :
                     /\ c # transaction.client_id
                     /\ contains_key(accs[c].transaction_log, transaction.transaction_id)
    IN IF transaction.transaction_type \in {"Deposit", "Withdrawal"} /\ known
       THEN created
       ELSE [created EXCEPT ![transaction.client_id] =
                dispatch(created[transaction.client_id], transaction)]

\* mutant: the record is applied to every account of the map
execute_on_all(accs, transaction) ==
    LET created == entry_or_insert(accs, transaction.client_id)
    IN [c \in DOMAIN created |-> dispatch(created[c], transaction)]

\* mutant: a dispute, resolve or chargeback looks the transaction up in every account
execute_global_lookup(accs, transaction) ==
    LET created == entry_or_insert(accs, transaction.client_id)
    IN [c \in DOMAIN created |->
           IF c = transaction.client_id \/ ~(transaction.transaction_type \in {"Deposit", "Withdrawal"})
           THEN dispatch(created[c], transaction)
           ELSE created[c]]

execute(accs, transaction) ==
    LET created == entry_or_insert(accs, transaction.client_id)
    IN [created EXCEPT ![transaction.client_id] = dispatch(created[transaction.client_id], transaction)]

OptAmounts == {None} \cup {Some(a) : a \in EngineAmounts}

(* ---- operations on one account: the calls a caller of ClientAccount makes ---- *)
Op(name, transaction_id, amount) == [name |-> name, transaction_id |-> transaction_id, amount |-> amount]

NoOp == Op("none", 0, 0)

TestClient == 0

\* history of the calls, kept beside the account to state the claims:
\*   op, before   the last call and the account as it was before that call
\*   origin[t]    the kind and amount of the last deposit or withdrawal the
\*                account accepted under transaction id t
\*   stage[t]     the stage of transaction id t in the life cycle
\*                Unknown -> Open -> Disputed -> {Resolved | Chargedback}
NoOrigin == [kind |-> "none", amount |-> 0]

accepted(o) ==
    \/ o.name = "deposit"
    \/ o.name = "withdraw" /\ account.available >= o.amount

nextStage(s, o) ==
    CASE accepted(o) /\ s = "Unknown" -> "Open"
      [] o.name = "dispute" /\ s = "Open" -> "Disputed"
      [] o.name = "resolve" /\ s = "Disputed" -> "Resolved"
      [] o.name = "chargeback" /\ s = "Disputed" -> "Chargedback"
      [] OTHER -> s

Call(result, o) ==
    /\ nOps < MaxOps
    /\ account' = result
    /\ op' = o
    /\ before' = account
    /\ origin' = IF accepted(o)
                 THEN [origin EXCEPT ![o.transaction_id] = [kind |-> o.name, amount |-> o.amount]]
                 ELSE origin
    /\ stage' = [stage EXCEPT ![o.transaction_id] = nextStage(@, o)]
    /\ nOps' = nOps + 1
    /\ UNCHANGED engineVars
    /\ UNCHANGED workerVars

Deposit ==
    \E t \in TxIds, a \in Amounts : Call(deposit(account, t, a), Op("deposit", t, a))

Withdraw ==
    \E t \in TxIds, a \in Amounts : Call(withdraw(account, t, a), Op("withdraw", t, a))

Dispute ==
    \E t \in TxIds : Call(dispute(account, t), Op("dispute", t, 0))

Resolve ==
    \E t \in TxIds : Call(resolve(account, t), Op("resolve", t, 0))

Chargeback ==
    \E t \in TxIds : Call(chargeback(account, t), Op("chargeback", t, 0))

AccountNext ==
    \/ Deposit
    \/ Withdraw
    \/ Dispute
    \/ Resolve
    \/ Chargeback

(* ---- the run: main feeds the records of the file to execute, in order ---- *)
Init ==
    /\ account = new(TestClient)
    /\ op = NoOp
    /\ before = account
    /\ origin = [t \in TxIds |-> NoOrigin]
    /\ stage = [t \in TxIds |-> "Unknown"]
    /\ nOps = 0
    /\ accounts = [c \in {} |-> new(c)]
    /\ last = NoTransaction
    /\ pre = accounts
    /\ referenced = {}
    /\ carriers = [t \in TxIds |-> {}]
    /\ nEvents = 0
    /\ queue = [c \in Clients |-> << >>]
    /\ inorder = accounts
    /\ reordered = FALSE
    /\ nRead = 0

\* history of the records, kept beside the engine to state the claims:
\*   last, pre      the last record executed and the accounts before it
\*   referenced     the client ids named by the records executed so far
\*   carriers[t]    the client ids of the Deposit and Withdrawal records that
\*                  carried transaction id t
carries(transaction) == transaction.transaction_type \in {"Deposit", "Withdrawal"}

Step(transaction) ==
    /\ nEvents < MaxEvents
    /\ accounts' = execute(accounts, transaction)
    /\ last' = transaction
    /\ pre' = accounts
    /\ referenced' = referenced \cup {transaction.client_id}
    /\ carriers' = IF carries(transaction)
                   THEN [carriers EXCEPT ![transaction.transaction_id] = @ \cup {transaction.client_id}]
                   ELSE carriers
    /\ nEvents' = nEvents + 1
    /\ UNCHANGED accountVars
    /\ UNCHANGED workerVars

ExecDeposit ==
    \E c \in Clients, t \in TxIds, a \in OptAmounts : Step(Transaction("Deposit", c, t, a))

ExecWithdrawal ==
    \E c \in Clients, t \in TxIds, a \in OptAmounts : Step(Transaction("Withdrawal", c, t, a))

ExecDispute ==
    \E c \in Clients, t \in TxIds : Step(Transaction("Dispute", c, t, None))

ExecResolve ==
    \E c \in Clients, t \in TxIds : Step(Transaction("Resolve", c, t, None))

ExecChargeback ==
    \E c \in Clients, t \in TxIds : Step(Transaction("Chargeback", c, t, None))

Next ==
    \/ ExecDeposit
    \/ ExecWithdrawal
    \/ ExecDispute
    \/ ExecResolve
    \/ ExecChargeback

\* the engine processing a file of records
Spec == Init /\ [][Next]_vars

\* one account receiving a sequence of calls
AccountSpec == Init /\ [][AccountNext]_vars

(* ---- the engine parallelised by client id ---- *)
\* The records of the file are handed, in file order, to one queue per client;
\* each queue is applied in order and each record atomically, the queues in any
\* order relative to each other.  inorder is the map the engine builds when it
\* executes the same records in file order, as main does.
\*   queue[c]     the records of client c read and not yet applied, with their
\*                position in the file
\*   reordered    some record was applied before a record of another client
\*                that precedes it in the file
Records ==
    {Transaction(type, c, t, a) : type \in {"Deposit", "Withdrawal"}, c \in Clients,
                                  t \in TxIds, a \in OptAmounts}
        \cup {Transaction(type, c, t, None) : type \in {"Dispute", "Resolve", "Chargeback"},
                                              c \in Clients, t \in TxIds}

ReadRecord ==
    \E transaction \in Records :
        /\ nRead < MaxFileLen
        /\ queue' = [queue EXCEPT ![transaction.client_id] =
                         Append(@, [position |-> nRead, transaction |-> transaction])]
        /\ inorder' = execute(inorder, transaction)
        /\ nRead' = nRead + 1
        /\ UNCHANGED <<accounts, reordered>>
        /\ UNCHANGED <<last, pre, referenced, carriers, nEvents>>
        /\ UNCHANGED accountVars

ApplyNext ==
    \E c \in Clients :
        /\ queue[c] # << >>
        /\ accounts' = execute(accounts, Head(queue[c]).transaction)
        /\ queue' = [queue EXCEPT ![c] = Tail(@)]
        /\ reordered' = (reordered \/ \E d \in Clients :
                             /\ queue[d] # << >>
                             /\ Head(queue[d]).position < Head(queue[c]).position)
        /\ UNCHANGED <<inorder, nRead>>
        /\ UNCHANGED <<last, pre, referenced, carriers, nEvents>>
        /\ UNCHANGED accountVars

WorkerNext ==
    \/ ReadRecord
    \/ ApplyNext

WorkerSpec == Init /\ [][WorkerNext]_vars

(* ======================================================================= *)
(* Claims about one account (checked under AccountSpec)                    *)
(* ======================================================================= *)
open_entries(self) == DOMAIN self.transaction_log

disputed_entries(self) == DOMAIN self.active_disputes

\* transaction ids that no call of the run ever passes: fresh in every state
FreshTxIds == {MaxTx, MaxTx + 1}

IsDisputeOp(o) == o.name \in {"dispute", "resolve", "chargeback"}

\* C1 (as claimed): in every reachable state of one account, reused transaction
\* ids included, no transaction id is a key of both transaction_log
\* (open_entries) and active_disputes (disputed_entries).
C1_Disjoint ==
    \A t \in TxIds : ~(t \in open_entries(account) /\ t \in disputed_entries(account))

\* C2 (as claimed): every transaction id only moves forward through
\* Unknown -> Open -> Disputed -> {Resolved | Chargedback}: an id that has been
\* disputed is never in open_entries again, and a dispute, resolve or chargeback
\* naming an id already resolved or charged back changes nothing of the account.
C2_DisputedNeverOpenAgain ==
    \A t \in TxIds :
        stage[t] \in {"Disputed", "Resolved", "Chargedback"} => t \notin open_entries(account)

C2_FinalizedIsInert ==
    \A t \in TxIds :
        (/\ stage[t] \in {"Resolved", "Chargedback"}
         /\ IsDisputeOp(op')
         /\ op'.transaction_id = t) => account' = account

\* C2: both parts of the one-shot life cycle, in every behaviour.
C2_OneShot == [](C2_DisputedNeverOpenAgain) /\ [][C2_FinalizedIsInert]_vars

\* C3: when id is an open deposit of amount a, chargeback(id) after dispute(id)
\* lowers held by a, sets locked and leaves available as it was just before the
\* chargeback; every chargeback that finds its entry lowers held by the disputed
\* amount, locks and leaves available alone; and deposit(id,a); dispute(id);
\* chargeback(id) on a fresh account ends with available = 0, held = 0, locked.
IsOpenDeposit(self, t, a) ==
    /\ t \in open_entries(self)
    /\ origin[t] = [kind |-> "deposit", amount |-> a]

C3_AfterDispute ==
    \A t \in TxIds, a \in Amounts :
        (op = Op("dispute", t, 0) /\ IsOpenDeposit(before, t, a)) =>
            LET c == chargeback(account, t)
            IN /\ c.held = account.held - a
               /\ c.locked = TRUE
               /\ c.available = account.available

C3_ChargebackStep ==
    \A t \in TxIds :
        (op = Op("chargeback", t, 0) /\ t \in disputed_entries(before)) =>
            /\ account.held = before.held - before.active_disputes[t]
            /\ account.locked = TRUE
            /\ account.available = before.available

C3_FreshAccount ==
    \A t \in TxIds, a \in Amounts :
        (op = Op("chargeback", t, 0)
            /\ before = dispute(deposit(new(TestClient), t, a), t)) =>
            /\ account.available = 0
            /\ account.held = 0
            /\ account.locked = TRUE

\* C3: the three parts together.
C3_Chargeback == C3_AfterDispute /\ C3_ChargebackStep /\ C3_FreshAccount

\* C3 witness: deposit(t,a); dispute(t); chargeback(t) has run on a fresh account.
C3_Witness ==
    \E t \in TxIds, a \in Amounts :
        /\ op = Op("chargeback", t, 0)
        /\ before = dispute(deposit(new(TestClient), t, a), t)
        /\ before.held = a
        /\ account.locked

\* C4: a withdrawal with amount > available changes nothing of the account
\* (available, held, both maps), so when the id had no earlier record a
\* following dispute, resolve or chargeback of that id is a no-op.
C4_RejectedWithdraw ==
    \A t \in TxIds, a \in Amounts :
        (op = Op("withdraw", t, a) /\ a > before.available) =>
            /\ account.available = before.available
            /\ account.held = before.held
            /\ account.transaction_log = before.transaction_log
            /\ account.active_disputes = before.active_disputes
            /\ (t \notin open_entries(before) /\ t \notin disputed_entries(before)) =>
                  /\ dispute(account, t) = account
                  /\ resolve(account, t) = account
                  /\ chargeback(account, t) = account

\* C4 witness: a withdrawal of more than the (positive) available funds under an
\* id with no record has been attempted.
C4_Witness ==
    \E t \in TxIds, a \in Amounts :
        /\ op = Op("withdraw", t, a)
        /\ before.available > 0
        /\ a > before.available
        /\ stage[t] = "Unknown"

\* C5 (as claimed): from any reachable state, for a > 0 and fresh ids i, j,
\* deposit(i,a) then withdraw(j,a) returns available to its value before the
\* deposit and leaves held unchanged.
DepositThenWithdraw(self, i, j, a) == withdraw(deposit(self, i, a), j, a)

C5_Original ==
    \A a \in Amounts, i \in FreshTxIds, j \in FreshTxIds :
        i # j =>
            /\ DepositThenWithdraw(account, i, j, a).available = account.available
            /\ DepositThenWithdraw(account, i, j, a).held = account.held

\* C5 (amended): the same from every reachable state with available >= 0; when
\* available < 0 before the deposit, the withdrawal is rejected and available
\* stays a above its value before the deposit.  Also on a deposit the run made:
\* withdrawing the deposited amount next restores the balances.
C5_FromNonNegative ==
    \A a \in Amounts, i \in FreshTxIds, j \in FreshTxIds :
        i # j =>
            /\ DepositThenWithdraw(account, i, j, a).held = account.held
            /\ account.available >= 0 =>
                  DepositThenWithdraw(account, i, j, a).available = account.available
            /\ account.available < 0 =>
                  DepositThenWithdraw(account, i, j, a).available = account.available + a

C5_AfterDepositStep ==
    \A t \in TxIds, a \in Amounts, j \in FreshTxIds :
        (op = Op("deposit", t, a) /\ before.available >= 0) =>
            /\ withdraw(account, j, a).available = before.available
            /\ withdraw(account, j, a).held = before.held

\* C5 (amended): from every reachable state and after every deposit of the run.
C5_DepositWithdraw == C5_FromNonNegative /\ C5_AfterDepositStep

\* C5 witness: a deposit has been made on an account with funds available and
\* funds held, and the withdrawal of the same amount is accepted.
C5_Witness ==
    \E t \in TxIds, a \in Amounts :
        /\ op = Op("deposit", t, a)
        /\ before.available > 0
        /\ before.held # 0
        /\ MaxTx \in open_entries(withdraw(account, MaxTx, a))

\* C6: when id is an open deposit of amount a, dispute(id) lowers available by
\* a and raises held by a, and a following resolve(id) raises available by a
\* and lowers held by a, so both are back at their values before the dispute.
C6_DisputeResolveDeposit ==
    \A t \in TxIds, a \in Amounts :
        (op = Op("dispute", t, 0) /\ IsOpenDeposit(before, t, a)) =>
            LET r == resolve(account, t)
            IN /\ account.available = before.available - a
               /\ account.held = before.held + a
               /\ r.available = account.available + a
               /\ r.held = account.held - a
               /\ r.available = before.available
               /\ r.held = before.held

\* C6 witness: an open deposit has been disputed while other funds were
\* available, and the resolve that follows finds the dispute.
C6_Witness ==
    \E t \in TxIds, a \in Amounts :
        /\ op = Op("dispute", t, 0)
        /\ IsOpenDeposit(before, t, a)
        /\ before.available > a
        /\ t \notin disputed_entries(resolve(account, t))
        /\ t \in disputed_entries(account)

\* C7: dispute is idempotent: in every reachable state and for every id,
\* dispute(id); dispute(id) leaves the account (available, held, locked, both
\* maps) as a single dispute(id) leaves it; after a dispute the run made, a
\* second dispute of the same id changes nothing.
C7_DisputeIdempotent ==
    /\ \A t \in TxIds : dispute(dispute(account, t), t) = dispute(account, t)
    /\ \A t \in TxIds : op = Op("dispute", t, 0) => dispute(account, t) = account

\* C7 witness: dispute(t) was called on an id that was already under dispute
\* and no longer open, i.e. the second dispute has run.
C7_Witness ==
    \E t \in TxIds :
        /\ op = Op("dispute", t, 0)
        /\ stage[t] = "Disputed"
        /\ t \in disputed_entries(before)
        /\ t \notin open_entries(before)
        /\ before.held > 0

\* C8: a referential miss is a silent no-op: dispute(id) with id not in
\* open_entries, and resolve(id) or chargeback(id) with id not in
\* disputed_entries, leave available, held, locked and both maps unchanged.
C8_MissIsNoOp ==
    \A t \in TxIds :
        /\ (op = Op("dispute", t, 0) /\ t \notin open_entries(before)) => account = before
        /\ (op = Op("resolve", t, 0) /\ t \notin disputed_entries(before)) => account = before
        /\ (op = Op("chargeback", t, 0) /\ t \notin disputed_entries(before)) => account = before

\* C8 witness: a chargeback named an id that was already resolved, on an account
\* with funds available.
C8_Witness ==
    \E t \in TxIds :
        /\ op = Op("chargeback", t, 0)
        /\ stage[t] = "Resolved"
        /\ t \notin disputed_entries(before)
        /\ before.available > 0

\* C9: when id is an open withdrawal of amount a (stored as -a), dispute(id)
\* raises available by a and lowers held by a (held may become negative), and a
\* following resolve(id) lowers available by a and raises held by a; and
\* deposit(0,5); withdraw(1,3); dispute(1) gives available = 5, held = -3, then
\* resolve(1) gives available = 2, held = 0.
IsOpenWithdrawal(self, t, a) ==
    /\ t \in open_entries(self)
    /\ origin[t] = [kind |-> "withdraw", amount |-> a]

C9_Step ==
    \A t \in TxIds, a \in Amounts :
        (op = Op("dispute", t, 0) /\ IsOpenWithdrawal(before, t, a)) =>
            LET r == resolve(account, t)
            IN /\ before.transaction_log[t] = 0 - a
               /\ account.available = before.available + a
               /\ account.held = before.held - a
               /\ r.available = account.available - a
               /\ r.held = account.held + a

C9_Scenario ==
    LET withdrawn == withdraw(deposit(new(TestClient), 0, 5), 1, 3)
        disputed == dispute(withdrawn, 1)
        resolved == resolve(disputed, 1)
    IN /\ disputed.available = 5
       /\ disputed.held = 0 - 3
       /\ resolved.available = 2
       /\ resolved.held = 0

C9_Run ==
    \A a \in Amounts, b \in Amounts :
        (op = Op("dispute", 1, 0)
            /\ b <= a
            /\ before = withdraw(deposit(new(TestClient), 0, a), 1, b)) =>
            /\ account.available = a
            /\ account.held = 0 - b
            /\ resolve(account, 1).available = a - b
            /\ resolve(account, 1).held = 0

\* C9: the step, the 5/3 scenario and the same scenario as run, together.
C9_DisputeWithdrawal == C9_Step /\ C9_Scenario /\ C9_Run

\* C9 witness: an open withdrawal has been disputed and held has become negative.
C9_Witness ==
    \E t \in TxIds, a \in Amounts :
        /\ op = Op("dispute", t, 0)
        /\ IsOpenWithdrawal(before, t, a)
        /\ account.held < 0
        /\ account.available = before.available + a

(* ======================================================================= *)
(* Claims about the engine (checked under Spec)                            *)
(* ======================================================================= *)
\* the account execute works on: the client's account, or a new one
AccountBefore(client_id) ==
    IF client_id \in DOMAIN pre THEN pre[client_id] ELSE new(client_id)

IsZeroAccount(self) ==
    /\ self.available = 0
    /\ self.held = 0
    /\ self.locked = FALSE
    /\ self.transaction_log = EmptyMap
    /\ self.active_disputes = EmptyMap

\* C10: execute drops a Deposit or Withdrawal record whose amount is absent: no
\* account's available, held, locked or maps change, and the only effect allowed
\* is the creation of a zero-balance account for the record's client; when the
\* amount is present the matching operation runs with (transaction_id, amount).
C10_AbsentDropped ==
    (last.transaction_type \in {"Deposit", "Withdrawal"} /\ last.amount = None) =>
        /\ \A c \in DOMAIN pre : accounts[c] = pre[c]
        /\ DOMAIN accounts = (DOMAIN pre) \cup {last.client_id}
        /\ last.client_id \notin DOMAIN pre => IsZeroAccount(accounts[last.client_id])

C10_PresentApplied ==
    \A a \in EngineAmounts :
        /\ (last.transaction_type = "Deposit" /\ last.amount = Some(a)) =>
              accounts[last.client_id] =
                  deposit(AccountBefore(last.client_id), last.transaction_id, a)
        /\ (last.transaction_type = "Withdrawal" /\ last.amount = Some(a)) =>
              accounts[last.client_id] =
                  withdraw(AccountBefore(last.client_id), last.transaction_id, a)

\* C10: absent amount dropped, present amount applied.
C10_AmountPresence == C10_AbsentDropped /\ C10_PresentApplied

\* C10 witness: a Withdrawal record with no amount was executed for a client
\* whose account had funds available.
C10_Witness ==
    /\ last.transaction_type = "Withdrawal"
    /\ last.amount = None
    /\ last.client_id \in DOMAIN pre
    /\ pre[last.client_id].available > 0

\* C11: the account map holds an account for exactly the client ids named by
\* the records executed so far (dropped records and no-ops included); an account
\* is created at its first reference with zero balances, unlocked and with empty
\* maps, the record then being applied to it; an account once created is never
\* removed and never created again.
C11_ExactlyReferenced == DOMAIN accounts = referenced

C11_CreatedZero ==
    (last # NoTransaction /\ last.client_id \notin DOMAIN pre) =>
        /\ IsZeroAccount(new(last.client_id))
        /\ new(last.client_id).client_id = last.client_id
        /\ accounts[last.client_id] = dispatch(new(last.client_id), last)
        /\ (~carries(last) \/ last.amount = None) => IsZeroAccount(accounts[last.client_id])

C11_NeverRemovedOrRecreated ==
    last # NoTransaction =>
        /\ DOMAIN pre \subseteq DOMAIN accounts
        /\ DOMAIN accounts = (DOMAIN pre) \cup {last.client_id}
        /\ last.client_id \in DOMAIN pre =>
              accounts[last.client_id] = dispatch(pre[last.client_id], last)
        /\ \A c \in DOMAIN pre : accounts[c].client_id = c

C11_LazyAccounts == C11_ExactlyReferenced /\ C11_CreatedZero /\ C11_NeverRemovedOrRecreated

\* C11 witness: a record that misses was executed for a client whose account
\* already held funds, and the account still holds them.
C11_Witness ==
    /\ last.transaction_type = "Dispute"
    /\ last.client_id \in DOMAIN pre
    /\ pre[last.client_id].available > 0
    /\ last.transaction_id \notin open_entries(pre[last.client_id])
    /\ accounts[last.client_id].available > 0
    /\ Cardinality(referenced) > 1

\* C12: execute changes at most the account of the record's client: every
\* other account already in the map is left as it was.
C12_Frame ==
    \A c \in DOMAIN pre : c # last.client_id => accounts[c] = pre[c]

\* C12 witness: a record changed its client's account while another client's
\* account held an open transaction with the same id.
C12_Witness ==
    \E c \in DOMAIN pre :
        /\ c # last.client_id
        /\ last.client_id \in DOMAIN pre
        /\ accounts[last.client_id] # pre[last.client_id]
        /\ last.transaction_id \in open_entries(pre[c])

\* C20: transaction lookup is per account: a Dispute, Resolve or Chargeback
\* record whose client carried no Deposit or Withdrawal with that transaction id,
\* while another client did, changes no account's available, held, locked or
\* maps (it only creates the named client's zero account if missing), and the
\* transaction stays disputable by the client that carried it.
IsForeignReference(transaction) ==
    /\ transaction.transaction_type \in {"Dispute", "Resolve", "Chargeback"}
    /\ transaction.client_id \notin carriers[transaction.transaction_id]
    /\ carriers[transaction.transaction_id] # {}

C20_PerAccountLookup ==
    IsForeignReference(last) =>
        /\ \A c \in DOMAIN pre : accounts[c] = pre[c]
        /\ DOMAIN accounts = (DOMAIN pre) \cup {last.client_id}
        /\ last.client_id \notin DOMAIN pre => IsZeroAccount(accounts[last.client_id])
        /\ \A c \in carriers[last.transaction_id] :
              last.transaction_id \in open_entries(pre[c]) =>
                  LET disputed == execute(accounts, Transaction("Dispute", c, last.transaction_id, None))
                  IN /\ last.transaction_id \in open_entries(accounts[c])
                     /\ last.transaction_id \in disputed_entries(disputed[c])
                     /\ disputed[c].held = accounts[c].held + accounts[c].transaction_log[last.transaction_id]

\* C20 witness: a Dispute record named a transaction that only another client
\* had deposited and that was still open in that client's account.
C20_Witness ==
    \E c \in DOMAIN pre :
        /\ last.transaction_type = "Dispute"
        /\ IsForeignReference(last)
        /\ c \in carriers[last.transaction_id]
        /\ last.transaction_id \in open_entries(pre[c])
        /\ pre[c].available > 0
        /\ last.transaction_id \in open_entries(accounts[c])

(* ======================================================================= *)
(* Further claims about one account (checked under AccountSpec)            *)
(* ======================================================================= *)
\* C14: after every operation on one account, the total accessor returns
\* available + held.
C14_TotalIsSum == get_total_funds(account) = account.available + account.held

\* C14 witness: an operation has left the account with funds available and
\* funds held.
C14_Witness ==
    /\ op # NoOp
    /\ account.available > 0
    /\ account.held > 0
    /\ get_total_funds(account) > account.available

\* C15: available < 0 is reachable: after a deposit and an accepted withdrawal
\* of part or all of it, disputing the deposit makes available negative; the
\* funds check of withdraw does not prevent it.  Every dispute of an open
\* deposit larger than the available funds ends with available < 0.
C15_DisputeOverdraws ==
    \A t \in TxIds, a \in Amounts :
        (op = Op("dispute", t, 0) /\ IsOpenDeposit(before, t, a) /\ before.available < a) =>
            /\ account.available = before.available - a
            /\ account.available < 0

C15_Run ==
    \A a \in Amounts, b \in Amounts :
        (op = Op("dispute", 0, 0)
            /\ b <= a
            /\ before = withdraw(deposit(new(TestClient), 0, a), 1, b)) =>
            /\ before.available = a - b
            /\ account.available = 0 - b
            /\ account.held = a

\* C15: both parts together.
C15_NegativeAvailable == C15_DisputeOverdraws /\ C15_Run

\* C15 witness: deposit(0,a); withdraw(1,b); dispute(0) has run and available
\* is negative.
C15_Witness ==
    \E a \in Amounts, b \in Amounts :
        /\ op = Op("dispute", 0, 0)
        /\ before = withdraw(deposit(new(TestClient), 0, a), 1, b)
        /\ 1 \in open_entries(before)
        /\ account.available < 0

\* C16 (as claimed): in every reachable state of one account, held equals the
\* sum of the signed amounts stored in active_disputes (disputed_entries); held
\* is 0 when nothing is under dispute.
RECURSIVE SumOver(_, _)
SumOver(m, keys) ==
    IF keys = {}
    THEN 0
    ELSE LET k == CHOOSE x \in keys : TRUE
         IN m[k] + SumOver(m, keys \ {k})

SumOfDisputes(self) == SumOver(self.active_disputes, disputed_entries(self))

C16_HeldIsSumOfDisputes ==
    /\ account.held = SumOfDisputes(account)
    /\ disputed_entries(account) = {} => account.held = 0

\* C17: dispute and resolve leave available + held unchanged; the total changes
\* by +amount on a deposit, by -amount on an accepted withdrawal, and by minus
\* the disputed signed amount on a chargeback that finds its entry (so charging
\* back a disputed withdrawal raises the total by the withdrawn amount); no
\* other call changes it.
Total(self) == self.available + self.held

TotalChange ==
    CASE op.name = "deposit" -> op.amount
      [] op.name = "withdraw" /\ before.available >= op.amount -> 0 - op.amount
      [] op.name = "chargeback" /\ op.transaction_id \in disputed_entries(before) ->
            0 - before.active_disputes[op.transaction_id]
      [] OTHER -> 0

C17_TotalAccounting ==
    /\ Total(account) = Total(before) + TotalChange
    /\ op.name \in {"dispute", "resolve"} => Total(account) = Total(before)
    /\ \A t \in TxIds, a \in Amounts :
          (op = Op("chargeback", t, 0)
              /\ t \in disputed_entries(before)
              /\ before.active_disputes[t] = 0 - a) => Total(account) = Total(before) + a
    /\ \A t \in TxIds :
          /\ Total(dispute(account, t)) = Total(account)
          /\ Total(resolve(account, t)) = Total(account)

\* C17 witness: a disputed withdrawal has been charged back and the total has
\* risen by the withdrawn amount.
C17_Witness ==
    \E t \in TxIds, a \in Amounts :
        /\ op = Op("chargeback", t, 0)
        /\ t \in disputed_entries(before)
        /\ origin[t] = [kind |-> "withdraw", amount |-> a]
        /\ before.active_disputes[t] = 0 - a
        /\ Total(account) = Total(before) + a

\* C18: locked is monotone and set only by chargeback: a new account is
\* unlocked; locked becomes true exactly in a chargeback that finds its id in
\* disputed_entries; once true it stays true; deposit, withdraw, dispute,
\* resolve and a chargeback that misses leave locked as it was.
LocksNow == op.name = "chargeback" /\ op.transaction_id \in disputed_entries(before)

C18_LockedStep ==
    /\ nOps = 0 => ~account.locked
    /\ ~new(TestClient).locked
    /\ account.locked = (before.locked \/ LocksNow)
    /\ ~LocksNow => account.locked = before.locked
    /\ before.locked => account.locked

C18_StaysLocked == account.locked => account'.locked

\* C18: each step, and locked never reverts along a behaviour.
C18_LockedMonotone == [](C18_LockedStep) /\ [][C18_StaysLocked]_vars

\* C18 witness: an account locked by a chargeback has taken a later deposit and
\* is still locked.
C18_Witness ==
    /\ op.name = "deposit"
    /\ before.locked
    /\ account.locked
    /\ \E t \in TxIds : stage[t] = "Chargedback"

\* C19: locked gates no operation: on two accounts that differ only in locked,
\* each of deposit, withdraw, dispute, resolve and chargeback leaves the same
\* available, held, transaction_log and active_disputes; a locked account still
\* takes deposits and withdrawals.
Balances(self) ==
    <<self.available, self.held, self.transaction_log, self.active_disputes>>

Toggled(self) == [self EXCEPT !.locked = ~self.locked]

C19_SameEitherWay ==
    \A t \in TxIds :
        /\ \A a \in Amounts :
              /\ Balances(deposit(Toggled(account), t, a)) = Balances(deposit(account, t, a))
              /\ Balances(withdraw(Toggled(account), t, a)) = Balances(withdraw(account, t, a))
        /\ Balances(dispute(Toggled(account), t)) = Balances(dispute(account, t))
        /\ Balances(resolve(Toggled(account), t)) = Balances(resolve(account, t))
        /\ Balances(chargeback(Toggled(account), t)) = Balances(chargeback(account, t))

C19_LockedStillMoves ==
    \A t \in TxIds, a \in Amounts :
        /\ (op = Op("deposit", t, a) /\ before.locked) =>
              /\ account.available = before.available + a
              /\ account.transaction_log[t] = a
        /\ (op = Op("withdraw", t, a) /\ before.locked /\ before.available >= a) =>
              /\ account.available = before.available - a
              /\ account.transaction_log[t] = 0 - a

\* C19: both parts together.
C19_LockGatesNothing == C19_SameEitherWay /\ C19_LockedStillMoves

\* C19 witness: an account locked by a chargeback has taken a deposit that
\* raised its available funds.
C19_Witness ==
    \E t \in TxIds, a \in Amounts :
        /\ op = Op("deposit", t, a)
        /\ before.locked
        /\ account.available = before.available + a
        /\ account.available > before.available

(* ======================================================================= *)
(* Claim about the engine parallelised by client id (under WorkerSpec)     *)
(* ======================================================================= *)
Quiescent == \A c \in Clients : queue[c] = << >>

====
